---------------------------- MODULE Spec2Model ----------------------------
(***************************************************************************)
(* Model of rst_opt_parse (src/src/lib.rs): OptParseItem, OptParse and the *)
(* IOptParse operations new, parse_options, parse_option, print_help,      *)
(* get_value, get_args_count and get_args.                                 *)
(*                                                                         *)
(* parse_options runs in three consecutive phases, each one action: the    *)
(* resolution of every option, the help pass and the positional pass.      *)
(* print_help only writes to standard output: help_printed counts its      *)
(* renderings.                                                             *)
(*                                                                         *)
(* A Rust String is modelled as a sequence of one-character strings, so    *)
(* that starts_with, find("=") and slicing are computed, not assumed.      *)
(***************************************************************************)
EXTENDS Integers, Sequences, FiniteSets, TLC

(***************************************************************************)
(* Bounds of the model.                                                    *)
(***************************************************************************)
MaxArgs == 3
MaxOptions == 2
MaxCalls == 2
MaxMin == 2

(***************************************************************************)
(* String helpers (std::string::String).                                   *)
(***************************************************************************)
EmptyString == << >>

starts_with(s, p) ==
    /\ Len(p) <= Len(s)
    /\ SubSeq(s, 1, Len(p)) = p

\* str::find("="): the 1-based position of the first "=", 0 for None.
find_eq(s) ==
    IF \E k \in 1..Len(s) : s[k] = "="
    THEN CHOOSE k \in 1..Len(s) :
            /\ s[k] = "="
            /\ \A j \in 1..(k - 1) : s[j] # "="
    ELSE 0

\* arg[the_pos+1..] (the_pos is 0-based in the source, k = the_pos + 1 here).
slice_after(s, k) == SubSeq(s, k + 1, Len(s))

Dash == << "-" >>
TrueString == << "t", "r", "u", "e" >>
HelpShort == << "-", "h" >>
HelpLong == << "-", "-", "h", "e", "l", "p" >>

(***************************************************************************)
(* OptParseItem::new.  The description is only read by print_help.         *)
(***************************************************************************)
OptParseItem(option, full_option, arg_required, value) ==
    [ option |-> option, full_option |-> full_option,
      arg_required |-> arg_required, value |-> value ]

(***************************************************************************)
(* Inputs: the tokens of the argument vector and the declared options.     *)
(* OptParse::new accepts any two vectors, so option lists that repeat a    *)
(* short form are inputs too.                                              *)
(***************************************************************************)
Tokens ==
    { << "-", "s" >>,
      << "-", "v" >>,
      << "-", "-", "s" >>,
      << "-", "-", "s", "=", "a" >>,
      << "-", "-", "v" >>,
      << "a" >>,
      << "b" >>,
      HelpShort,
      HelpLong }

Items ==
    { OptParseItem(<< "-", "s" >>, << "-", "-", "s" >>, TRUE,  << "d" >>),
      OptParseItem(<< "-", "v" >>, << "-", "-", "v" >>, FALSE, << "f" >>),
      OptParseItem(<< "-", "v" >>, << "-", "-", "v" >>, TRUE,  << "e" >>) }

SeqsUpTo(S, n) == UNION { [1..k -> S] : k \in 0..n }

VARIABLES
    args,               \* OptParse.args
    options,            \* OptParse.options
    values,             \* OptParse.values : HashMap<String, String>
    arg_values,         \* OptParse.arg_values
    arg_origin,         \* history: the index in args of each pushed arg_values entry
    pc,                 \* position inside parse_options, or "ready" / "exited"
    is_finish_if_help,  \* parameter of the running parse_options call
    help_printed,       \* number of print_help renderings so far
    exit_code,          \* -1 while the process runs, else the std::process::exit code
    calls,              \* completed parse calls
    required,           \* the running call is parse_options_with_required_args
    min_args,           \* its minimum positional count
    max_args            \* its maximum positional count, -1 for unbounded

vars == << args, options, values, arg_values, arg_origin, pc,
           is_finish_if_help, help_printed, exit_code, calls,
           required, min_args, max_args >>

(***************************************************************************)
(* parse_option: the scan of lines 123-154, then lines 155-158.            *)
(***************************************************************************)
\* The "-s case" (lines 125-139) on state <<value, found_set_true>>.
ShortCaseNoDashGuard(a, option, i, st) ==
    IF option.option = a[i]
    THEN IF option.arg_required
         THEN IF i + 1 <= Len(a) THEN << a[i + 1], st[2] >> ELSE st
         ELSE << st[1], TRUE >>
    ELSE st

ShortCase(a, option, i, st) ==
    IF option.option = a[i]
    THEN IF option.arg_required
         THEN IF i + 1 <= Len(a) /\ ~starts_with(a[i + 1], Dash)
              THEN << a[i + 1], st[2] >>
              ELSE st
         ELSE << st[1], TRUE >>
    ELSE st

\* The "--something case" (lines 140-153); it follows the short case for the
\* same token ("} if", not "else if").
LongCaseValueOnly(arg, option, st) ==
    IF starts_with(arg, option.full_option) /\ option.arg_required
                                            /\ find_eq(arg) # 0
    THEN << slice_after(arg, find_eq(arg)), st[2] >>
    ELSE st

LongCase(arg, option, st) ==
    IF starts_with(arg, option.full_option)
    THEN IF option.arg_required
         THEN IF find_eq(arg) # 0
              THEN << slice_after(arg, find_eq(arg)), st[2] >>
              ELSE st
         ELSE << st[1], TRUE >>
    ELSE st

\* One iteration of the for loop (lines 123-154).
ScanStep(a, option, i, st) ==
    LongCase(a[i], option, ShortCase(a, option, i, st))

RECURSIVE ScanRightToLeft(_, _, _, _)
ScanRightToLeft(a, option, i, st) ==
    IF i > Len(a) THEN st
    ELSE ScanStep(a, option, i, ScanRightToLeft(a, option, i + 1, st))

\* for i in 0..*argc (line 123), from index i on.
RECURSIVE Scan(_, _, _, _)
Scan(a, option, i, st) ==
    IF i > Len(a) THEN st
    ELSE Scan(a, option, i + 1, ScanStep(a, option, i, st))

ResolvedValueNoDefault(a, option) ==
    LET st == Scan(a, option, 1, << EmptyString, FALSE >>)
    IN  IF st[2] THEN TrueString ELSE st[1]

\* The value parse_option stores: lines 121-122 and 155-157 around the scan.
ResolvedValue(a, option) ==
    LET st == Scan(a, option, 1, << option.value, FALSE >>)
    IN  IF st[2] THEN TrueString ELSE st[1]

parse_option_keyed_by_full_option(a, vals, option) ==
    (option.full_option :> ResolvedValue(a, option)) @@ vals

\* parse_option: HashMap::insert( option.option, value ) (line 158).
parse_option(a, vals, option) ==
    (option.option :> ResolvedValue(a, option)) @@ vals

\* for option in _options { self.parse_option( &option ) } (lines 84-87).
RECURSIVE ParseAll(_, _, _, _)
ParseAll(a, opts, k, vals) ==
    IF k > Len(opts) THEN vals
    ELSE ParseAll(a, opts, k + 1, parse_option(a, vals, opts[k]))

(***************************************************************************)
(* parse_options, lines 91-100: help.                                      *)
(***************************************************************************)
IsHelpShortOnly(arg) == arg = HelpShort

IsHelp(arg) == arg = HelpShort \/ starts_with(arg, HelpLong)

HelpHits(a) == Cardinality({ i \in 1..Len(a) : IsHelp(a[i]) })

(***************************************************************************)
(* parse_options, lines 102-116: positional arguments.                     *)
(***************************************************************************)
SkipCountAnyOption(arg, opts) ==
    Cardinality({ k \in 1..Len(opts) : arg = opts[k].option })

\* The inner for loop (lines 107-111): one increment per matching option.
SkipCount(arg, opts) ==
    Cardinality({ k \in 1..Len(opts) :
                    arg = opts[k].option /\ opts[k].arg_required })

\* The while loop: the indices of args pushed to arg_values, in push order.
RECURSIVE CollectFrom(_, _, _, _)
CollectFrom(a, opts, i, acc) ==
    IF i > Len(a) THEN acc
    ELSE IF starts_with(a[i], Dash)
         THEN CollectFrom(a, opts, i + SkipCount(a[i], opts) + 1, acc)
         ELSE CollectFrom(a, opts, i + 1, Append(acc, i))

Collected(a, opts) == CollectFrom(a, opts, 1, << >>)

(***************************************************************************)
(* Queries.                                                                *)
(***************************************************************************)
get_value(option) ==
    IF option \in DOMAIN values THEN values[option] ELSE EmptyString

get_args_count == Len(arg_values)

get_args(index) ==
    IF index < get_args_count THEN arg_values[index + 1] ELSE EmptyString

(***************************************************************************)
(* The state machine.                                                      *)
(***************************************************************************)
\* OptParse::new
Init ==
    /\ args \in SeqsUpTo(Tokens, MaxArgs)
    /\ options \in SeqsUpTo(Items, MaxOptions)
    /\ values = << >>
    /\ arg_values = << >>
    /\ arg_origin = << >>
    /\ pc = "ready"
    /\ is_finish_if_help = FALSE
    /\ help_printed = 0
    /\ exit_code = -1
    /\ calls = 0
    /\ required = FALSE
    /\ min_args = 0
    /\ max_args = -1

\* parse_options( is_finish_if_help ), lines 83-87: every option is resolved.
ParseOptions(h) ==
    /\ pc = "ready"
    /\ calls < MaxCalls
    /\ values' = ParseAll(args, options, 1, values)
    /\ is_finish_if_help' = h
    /\ pc' = "help"
    /\ UNCHANGED << args, options, arg_values, arg_origin, help_printed,
                    exit_code, calls, required, min_args, max_args >>

\* parse_options, lines 89-100: print_help per help token; exit at the first
\* one when is_finish_if_help.
HelpScan ==
    /\ pc = "help"
    /\ IF HelpHits(args) > 0 /\ is_finish_if_help
       THEN /\ help_printed' = help_printed + 1
            /\ exit_code' = 0
            /\ pc' = "exited"
       ELSE /\ help_printed' = help_printed + HelpHits(args)
            /\ exit_code' = exit_code
            /\ pc' = "args"
    /\ UNCHANGED << args, options, values, arg_values, arg_origin,
                    is_finish_if_help, calls, required, min_args, max_args >>

\* parse_options, lines 102-117: the positional arguments are pushed.
CollectArgs ==
    /\ pc = "args"
    /\ LET idx == Collected(args, options)
       IN  /\ arg_values' = arg_values \o [ k \in 1..Len(idx) |-> args[idx[k]] ]
           /\ arg_origin' = arg_origin \o idx
    /\ IF required
       THEN /\ pc' = "check"
            /\ UNCHANGED << is_finish_if_help, calls >>
       ELSE /\ pc' = "ready"
            /\ is_finish_if_help' = FALSE
            /\ calls' = calls + 1
    /\ UNCHANGED << args, options, values, help_printed, exit_code,
                    required, min_args, max_args >>

Next ==
    \/ \E h \in BOOLEAN : ParseOptions(h)
    \/ HelpScan
    \/ CollectArgs

Spec == Init /\ [][Next]_vars

(***************************************************************************)
(* parse_options_with_required_args, called by main (src/src/main.rs line  *)
(* 31) and absent from lib.rs: modelled from the specification's section   *)
(* 4.2.  It parses like parse_options and then rejects the run, by help    *)
(* output and process termination, when the positional count is out of     *)
(* bounds.                                                                 *)
(***************************************************************************)
\* main's option list (main.rs lines 23-26), long forms abbreviated.
MainOptions ==
    << OptParseItem(<< "-", "s" >>, << "-", "-", "s" >>, TRUE, << "d" >>),
       OptParseItem(<< "-", "e" >>, << "-", "-", "e" >>, TRUE, << "p" >>),
       OptParseItem(<< "-", "c" >>, << "-", "-", "c" >>, TRUE, << "2" >>) >>

InitReq ==
    /\ args \in SeqsUpTo(Tokens, MaxArgs)
    /\ options = MainOptions
    /\ values = << >>
    /\ arg_values = << >>
    /\ arg_origin = << >>
    /\ pc = "ready"
    /\ is_finish_if_help = FALSE
    /\ help_printed = 0
    /\ exit_code = -1
    /\ calls = 0
    /\ required = FALSE
    /\ min_args = 0
    /\ max_args = -1

OutOfBoundsNoUnbounded(count, min, max) == count < min \/ count > max

OutOfBounds(count, min, max) ==
    count < min \/ (max # -1 /\ count > max)

ParseOptionsWithRequiredArgs(h, min, max) ==
    /\ pc = "ready"
    /\ calls = 0
    /\ values' = ParseAll(args, options, 1, values)
    /\ is_finish_if_help' = h
    /\ required' = TRUE
    /\ min_args' = min
    /\ max_args' = max
    /\ pc' = "help"
    /\ UNCHANGED << args, options, arg_values, arg_origin, help_printed,
                    exit_code, calls >>

CheckRequiredArgs ==
    /\ pc = "check"
    /\ IF OutOfBounds(get_args_count, min_args, max_args)
       THEN /\ help_printed' = help_printed + 1
            /\ exit_code' = 0
            /\ pc' = "exited"
            /\ UNCHANGED << is_finish_if_help, calls, required >>
       ELSE /\ pc' = "ready"
            /\ is_finish_if_help' = FALSE
            /\ required' = FALSE
            /\ calls' = calls + 1
            /\ UNCHANGED << help_printed, exit_code >>
    /\ UNCHANGED << args, options, values, arg_values, arg_origin,
                    min_args, max_args >>

NextReq ==
    \/ \E h \in BOOLEAN, min \in 0..MaxMin, max \in -1..MaxMin :
          ParseOptionsWithRequiredArgs(h, min, max)
    \/ HelpScan
    \/ CollectArgs
    \/ CheckRequiredArgs

SpecReq == InitReq /\ [][NextReq]_vars

(***************************************************************************)
(* Vocabulary of the properties.                                           *)
(***************************************************************************)
\* A parse call has returned / exactly one parse call has returned.
Parsed == pc = "ready" /\ calls >= 1
ParsedOnce == pc = "ready" /\ calls = 1

Shorts(opts) == { opts[k].option : k \in 1..Len(opts) }

UniqueShorts(opts) ==
    \A j, k \in 1..Len(opts) : j # k => opts[j].option # opts[k].option

\* No two value-requiring options share a short form.
UniqueValueShorts(opts) ==
    \A j, k \in 1..Len(opts) :
        (j # k /\ opts[j].arg_required /\ opts[k].arg_required)
            => opts[j].option # opts[k].option

IsValueShort(tok, opts) ==
    \E k \in 1..Len(opts) : opts[k].option = tok /\ opts[k].arg_required

\* The left-to-right walk of the positional rule, from index i on.
RECURSIVE WalkFrom(_, _, _)
WalkFrom(a, opts, i) ==
    IF i > Len(a) THEN << >>
    ELSE IF a[i][1] = "-"
         THEN IF IsValueShort(a[i], opts)
              THEN WalkFrom(a, opts, i + 2)
              ELSE WalkFrom(a, opts, i + 1)
         ELSE << a[i] >> \o WalkFrom(a, opts, i + 1)

Walk(a, opts) == WalkFrom(a, opts, 1)

PositionalsAre(w) ==
    /\ arg_values = w
    /\ get_args_count = Len(w)
    /\ \A n \in 0..Len(args) :
          get_args(n) = IF n < Len(w) THEN w[n + 1] ELSE EmptyString

\* Token i supplies option o a value through the short form.
SuppliesShort(a, o, i) ==
    /\ a[i] = o.option
    /\ i + 1 <= Len(a)
    /\ a[i + 1][1] # "-"

\* Token i supplies option o a value through the long form.
SuppliesLong(a, o, i) ==
    /\ starts_with(a[i], o.full_option)
    /\ \E n \in 1..Len(a[i]) : a[i][n] = "="

\* The values token i supplies to option o (at most one per form).
Supplied(a, o, i) ==
    (IF SuppliesShort(a, o, i) THEN { a[i + 1] } ELSE {})
    \cup (IF SuppliesLong(a, o, i)
          THEN { slice_after(a[i], find_eq(a[i])) } ELSE {})

Suppliers(a, o) == { i \in 1..Len(a) : Supplied(a, o, i) # {} }

LastSupplier(a, o) ==
    CHOOSE i \in Suppliers(a, o) : \A j \in Suppliers(a, o) : j <= i

\* Option o's short token occurs at i with its value missing.
ValueMissing(a, o, i) ==
    /\ a[i] = o.option
    /\ (i = Len(a) \/ a[i + 1][1] = "-")

\* Some token equals o's short form or begins with its long form.
Present(a, o) ==
    \E i \in 1..Len(a) : a[i] = o.option \/ starts_with(a[i], o.full_option)

HelpRequested(a) ==
    \E i \in 1..Len(a) :
        a[i] = << "-", "h" >>
        \/ (Len(a[i]) >= 6 /\ SubSeq(a[i], 1, 6) = << "-", "-", "h", "e", "l", "p" >>)

(***************************************************************************)
(* C1.  After one parse_options on a fresh parser the positionals are the  *)
(* result of the left-to-right walk: a token starting with "-" is dropped, *)
(* together with exactly the one following token when it is the short form *)
(* of a value-requiring option; every other token is kept, in order.       *)
(***************************************************************************)
\* C1 as stated, for every option list.
C1_PositionalsAreTheWalk_AnyOptions ==
    ParsedOnce => PositionalsAre(Walk(args, options))

\* C1 amended: for option lists in which no two value-requiring options
\* share a short form, the positionals after one parse_options are the walk.
C1_PositionalsAreTheWalk ==
    (ParsedOnce /\ UniqueValueShorts(options))
        => PositionalsAre(Walk(args, options))

C1_Witness ==
    /\ ParsedOnce
    /\ UniqueValueShorts(options)
    /\ Len(args) = 3
    /\ IsValueShort(args[1], options)
    /\ args[2][1] = "-"
    /\ arg_values = << args[3] >>

(***************************************************************************)
(* C2.  With unique short forms, a value-requiring option that some token  *)
(* supplies with a value resolves to the value of the last supplying       *)
(* token, whichever of the two forms that token uses.                      *)
(***************************************************************************)
C2_LastSupplierWins ==
    (Parsed /\ UniqueShorts(options)) =>
        \A k \in 1..Len(options) :
            (options[k].arg_required /\ Suppliers(args, options[k]) # {})
                => get_value(options[k].option)
                     \in Supplied(args, options[k],
                                  LastSupplier(args, options[k]))

C2_Witness ==
    /\ Parsed
    /\ UniqueShorts(options)
    /\ \E k \in 1..Len(options) :
          /\ options[k].arg_required
          /\ Cardinality(Suppliers(args, options[k])) = 2
          /\ SuppliesShort(args, options[k], 1)
          /\ SuppliesLong(args, options[k], 3)
          /\ args[2] # get_value(options[k].option)
          /\ get_value(options[k].option) = << "a" >>

(***************************************************************************)
(* C3.  With unique short forms, an option that no token names (none       *)
(* equals its short form, none begins with its long form) resolves to its  *)
(* declared default.                                                       *)
(***************************************************************************)
C3_AbsentKeepsDefault ==
    (Parsed /\ UniqueShorts(options)) =>
        \A k \in 1..Len(options) :
            ~Present(args, options[k])
                => get_value(options[k].option) = options[k].value

C3_Witness ==
    /\ Parsed
    /\ UniqueShorts(options)
    /\ Len(options) = 2
    /\ Len(args) > 0
    /\ ~Present(args, options[1])
    /\ Present(args, options[2])
    /\ get_value(options[1].option) = options[1].value
    /\ options[1].value # EmptyString

(***************************************************************************)
(* C4.  A flag-style option that some token names resolves to "true".      *)
(***************************************************************************)
\* C4 as stated, for every option list.
C4_FlagPresentIsTrue_AnyOptions ==
    Parsed =>
        \A k \in 1..Len(options) :
            (~options[k].arg_required /\ Present(args, options[k]))
                => get_value(options[k].option) = << "t", "r", "u", "e" >>

\* C4 amended: with short forms unique in the option list, a flag-style
\* option that some token names resolves to "true", whatever its default
\* and the other tokens.
C4_FlagPresentIsTrue ==
    (Parsed /\ UniqueShorts(options)) =>
        \A k \in 1..Len(options) :
            (~options[k].arg_required /\ Present(args, options[k]))
                => get_value(options[k].option) = << "t", "r", "u", "e" >>

C4_Witness ==
    /\ Parsed
    /\ UniqueShorts(options)
    /\ \E k \in 1..Len(options) :
          /\ ~options[k].arg_required
          /\ options[k].value # << "t", "r", "u", "e" >>
          /\ \E i \in 1..Len(args) :
                /\ args[i] # options[k].option
                /\ starts_with(args[i], options[k].full_option)
          /\ get_value(options[k].option) = << "t", "r", "u", "e" >>

(***************************************************************************)
(* C5.  A value-requiring option whose short token occurs with its value   *)
(* missing keeps its default.                                              *)
(***************************************************************************)
\* C5 as stated: one occurrence with a missing value is enough (refuted even
\* when the short forms are unique).
C5_MissingValueKeepsDefault_AnyOccurrence ==
    (Parsed /\ UniqueShorts(options)) =>
        \A k \in 1..Len(options) :
            (/\ options[k].arg_required
             /\ \E i \in 1..Len(args) : ValueMissing(args, options[k], i))
                => get_value(options[k].option) = options[k].value

\* C5 amended: with unique short forms, a value-requiring option whose short
\* token occurs with its value missing keeps its default provided no token
\* of rawArgs supplies it a value (no other occurrence of the short token
\* is followed by a value, and no long-form token carries "=").
C5_MissingValueKeepsDefault ==
    (Parsed /\ UniqueShorts(options)) =>
        \A k \in 1..Len(options) :
            (/\ options[k].arg_required
             /\ \E i \in 1..Len(args) : ValueMissing(args, options[k], i)
             /\ Suppliers(args, options[k]) = {})
                => get_value(options[k].option) = options[k].value

C5_Witness ==
    /\ Parsed
    /\ UniqueShorts(options)
    /\ Len(options) = 2
    /\ Len(args) = 2
    /\ options[1].arg_required
    /\ ~options[2].arg_required
    /\ args[1] = options[1].option
    /\ args[2] = options[2].option
    /\ get_value(options[1].option) = options[1].value
    /\ get_value(options[2].option) = << "t", "r", "u", "e" >>

(***************************************************************************)
(* C6.  parse_options is idempotent: once a call has returned, a further   *)
(* call leaves every resolved value and the positionals as they were.      *)
(***************************************************************************)
C6_SecondParseChangesNothing ==
    [][calls >= 1 => (values' = values /\ arg_values' = arg_values)]_vars

(***************************************************************************)
(* C7.  The keys of values are short forms of declared options only: none  *)
(* before the first parse_options, all of them after it; get_value is ""   *)
(* for every other token, and for every token before parsing.              *)
(***************************************************************************)
QueryTokens ==
    Tokens \cup Shorts(options)
           \cup { options[k].full_option : k \in 1..Len(options) }
           \cup { args[i] : i \in 1..Len(args) }

C7_KeysAreDeclaredShorts ==
    /\ DOMAIN values \subseteq Shorts(options)
    /\ (pc = "ready" /\ calls = 0) => DOMAIN values = {}
    /\ (pc # "ready" \/ calls >= 1) => DOMAIN values = Shorts(options)
    /\ \A t \in QueryTokens :
          (t \notin Shorts(options) \/ (pc = "ready" /\ calls = 0))
              => get_value(t) = EmptyString

C7_Witness ==
    /\ Parsed
    /\ Len(options) = 2
    /\ DOMAIN values = Shorts(options)
    /\ \E i \in 1..Len(args) :
          /\ args[i] \notin Shorts(options)
          /\ \E k \in 1..Len(options) : SuppliesLong(args, options[k], i)
          /\ get_value(args[i]) = EmptyString
    /\ \E k \in 1..Len(options) :
          get_value(options[k].full_option) = EmptyString

(***************************************************************************)
(* C8.  Help is rendered exactly when some token is "-h" or begins with    *)
(* "--help", and only once every option is resolved.  When the caller asks *)
(* to finish on help the process exits with code 0 right after one         *)
(* rendering and collects no positional; otherwise the call runs to its    *)
(* end, and values and positionals are what they are without help.         *)
(***************************************************************************)
C8_HelpThenHaltOrContinue ==
    [][ /\ (help_printed' # help_printed)
            => (/\ pc = "help"
                /\ HelpRequested(args)
                /\ DOMAIN values = Shorts(options))
        /\ (pc = "help" /\ HelpRequested(args))
            => help_printed' > help_printed
        /\ (pc = "help" /\ HelpRequested(args) /\ is_finish_if_help)
            => (/\ pc' = "exited"
                /\ exit_code' = 0
                /\ help_printed' = help_printed + 1
                /\ arg_values' = arg_values
                /\ values' = values)
        /\ (pc = "help" /\ ~(HelpRequested(args) /\ is_finish_if_help))
            => (pc' = "args" /\ exit_code' = -1)
        /\ pc = "args"
            => (/\ pc' = "ready"
                /\ calls' = calls + 1
                /\ values' = values
                /\ DOMAIN values' = Shorts(options)
                /\ (calls = 0 /\ UniqueValueShorts(options))
                      => arg_values' = Walk(args, options))
        /\ pc # "exited"
      ]_vars

C8_Witness ==
    /\ pc = "exited"
    /\ exit_code = 0
    /\ help_printed = 1
    /\ calls = 0
    /\ Cardinality({ i \in 1..Len(args) : args[i] \in { HelpShort, HelpLong } }) = 2
    /\ Walk(args, options) # << >>
    /\ arg_values = << >>
    /\ DOMAIN values # {}

(***************************************************************************)
(* C9.  A positional is never a token occurrence that a value-requiring    *)
(* option took as its value through the short form.                        *)
(***************************************************************************)
C9_ConsumedValueIsNoPositional ==
    ParsedOnce =>
        \A k \in 1..Len(options), i \in 1..Len(args) :
            (options[k].arg_required /\ SuppliesShort(args, options[k], i))
                => ~(\E n \in 1..Len(arg_origin) : arg_origin[n] = i + 1)

=============================================================================
